---- MODULE Spec2Model ----
(***************************************************************************)
(* A model of the cache simulator of src/cache.py: the Cache base class    *)
(* (request handling, hit/miss statistics, sample buffers and their        *)
(* durable logs), DirectCache, FullyAssociativeCache with the two          *)
(* displacement strategies, and SetAssociativeCache composed of inner      *)
(* FullyAssociativeCache objects.                                          *)
(*                                                                         *)
(* A Python object is a record of its attributes.  A dict is a function    *)
(* with a finite domain, a list indexed from 0 is a function on 0..n-1,    *)
(* and a list that is only appended to is a sequence.  A log file is the   *)
(* sequence of its text lines, each line a sequence of characters; the     *)
(* two temporary file names of an object are taken to be distinct, so the  *)
(* attribute that holds the name holds the file's content here.            *)
(*                                                                         *)
(* Addresses are byte addresses handed out by Memory.allocate from base 0  *)
(* (src/cache.py:12-27), hence non-negative.  Python 2 `/` on ints is      *)
(* floor division, \div here.                                              *)
(***************************************************************************)
EXTENDS Integers, Sequences, FiniteSets

\* Bounds of the model: the length of a trace and the largest address.
MaxRequests == 5
MaxAddr == 8

\* The constructor arguments of main() (64, 3 * 1024, sets 3) and the flush
\* threshold (10000), scaled down: 2 blocks for the direct and the fully
\* associative cache, 2 sets of 2 blocks for the set associative one.
LineSize == 2
Size == 4
SetAssocSize == 8
SetsAmount == 2
FlushThreshold == 2

Addrs == 0..MaxAddr

\* Bound of the matrix dimension the trace driver is run with.
MaxN == 3

\* main()'s constructor arguments as written, and try_algo's element_size.
MainLineSize == 64
MainSize == 3072
MainSets == 3
ElementSize == 4

VARIABLES
    cache,    \* the cache object under simulation (main's `cache`)
    pc,       \* where try_algo is: "algo", "flush_false", "report", "done", "aborted"
    addr,     \* the argument of the last get call (-1: none yet)
    verdict,  \* what the last get call returned
    trace,    \* every get call so far: the line asked for and the verdict returned
    report,   \* what try_algo wrote: get_hit_stat() and get_extended_stat()
    loop      \* algo's loop variables and position, when algo drives the cache

vars == <<cache, pc, addr, verdict, trace, report, loop>>

----------------------------------------------------------------------------
\* Python dict operations: d[k] = v (also d.update({k: v})) and del d[k].

Put(d, k, v) == [x \in (DOMAIN d) \cup {k} |-> IF x = k THEN v ELSE d[x]]

Del(d, k) == [x \in (DOMAIN d) \ {k} |-> d[x]]

\* An object's attributes `a`, extended or overridden by the attributes `b`.
Attrs(a, b) == [x \in (DOMAIN a) \cup (DOMAIN b) |-> IF x \in DOMAIN b THEN b[x] ELSE a[x]]

Range(s) == {s[i] : i \in DOMAIN s}

----------------------------------------------------------------------------
\* Text of the durable logs: "{}\n".format(val) and int(l.strip('\n')).

DigitChar == <<"0", "1", "2", "3", "4", "5", "6", "7", "8", "9">>

RECURSIVE Digits(_)
Digits(n) == IF n < 10 THEN <<DigitChar[n + 1]>>
             ELSE Digits(n \div 10) \o <<DigitChar[(n % 10) + 1]>>

Format(val) == (IF val < 0 THEN <<"-">> \o Digits(-val) ELSE Digits(val)) \o <<"\n">>

RECURSIVE Strip(_)
Strip(l) == IF l # <<>> /\ Head(l) = "\n" THEN Strip(Tail(l))
            ELSE IF l # <<>> /\ l[Len(l)] = "\n" THEN Strip(SubSeq(l, 1, Len(l) - 1))
            ELSE l

DigitValue(c) == CHOOSE d \in 0..9 : DigitChar[d + 1] = c

RECURSIVE Unsigned(_)
Unsigned(l) == IF Len(l) = 1 THEN DigitValue(l[1])
               ELSE 10 * Unsigned(SubSeq(l, 1, Len(l) - 1)) + DigitValue(l[Len(l)])

ParseInt(l) == LET s == Strip(l)
               IN IF Head(s) = "-" THEN 0 - Unsigned(Tail(s)) ELSE Unsigned(s)

----------------------------------------------------------------------------
\* class Cache

Cache_init(line_size, size) ==
    [line_size |-> line_size,
     size |-> size,
     blocks |-> size \div line_size,
     hits |-> 0,
     requests |-> 0,
     in_cache_file |-> <<>>,
     in_cache_len |-> 0,
     in_cache_history |-> <<>>,
     not_in_cache_file |-> <<>>,
     not_in_cache_len |-> 0,
     not_in_cache_history |-> <<>>,
     history |-> <<>>]

\* A flush that opens the other stream's log.
flush_WrongLog(self, in_cache) ==
    IF in_cache
    THEN [self EXCEPT
            !.not_in_cache_file = @ \o [i \in 1..Len(self.in_cache_history) |->
                                            Format(self.in_cache_history[i])],
            !.in_cache_history = <<>>,
            !.in_cache_len = 0]
    ELSE [self EXCEPT
            !.in_cache_file = @ \o [i \in 1..Len(self.not_in_cache_history) |->
                                        Format(self.not_in_cache_history[i])],
            !.not_in_cache_history = <<>>,
            !.not_in_cache_len = 0]

flush(self, in_cache) ==
    IF in_cache
    THEN [self EXCEPT
            !.in_cache_file = @ \o [i \in 1..Len(self.in_cache_history) |->
                                        Format(self.in_cache_history[i])],
            !.in_cache_history = <<>>,
            !.in_cache_len = 0]
    ELSE [self EXCEPT
            !.not_in_cache_file = @ \o [i \in 1..Len(self.not_in_cache_history) |->
                                            Format(self.not_in_cache_history[i])],
            !.not_in_cache_history = <<>>,
            !.not_in_cache_len = 0]

\* An add_miss_stat that flushes one sample later.
add_miss_stat_LateFlush(self, in_cache, val) ==
    LET s1 == IF in_cache
              THEN [self EXCEPT !.in_cache_len = @ + 1,
                                !.in_cache_history = Append(@, val)]
              ELSE [self EXCEPT !.not_in_cache_len = @ + 1,
                                !.not_in_cache_history = Append(@, val)]
    IN  IF (IF in_cache THEN s1.in_cache_len ELSE s1.not_in_cache_len) > FlushThreshold + 1
        THEN flush(s1, in_cache)
        ELSE s1

add_miss_stat(self, in_cache, val) ==
    LET s1 == IF in_cache
              THEN [self EXCEPT !.in_cache_len = @ + 1,
                                !.in_cache_history = Append(@, val)]
              ELSE [self EXCEPT !.not_in_cache_len = @ + 1,
                                !.not_in_cache_history = Append(@, val)]
    IN  IF (IF in_cache THEN s1.in_cache_len ELSE s1.not_in_cache_len) > FlushThreshold
        THEN flush(s1, in_cache)
        ELSE s1

\* A get that counts a hit whatever the verdict.
Cache_get_HitsEveryRequest(r, line_number) ==
    LET s2 == [r.self EXCEPT !.requests = @ + 1, !.hits = @ + 1]
    IN  IF r.verdict
        THEN [self |-> add_miss_stat(s2, TRUE, s2.requests - s2.history[line_number]),
              verdict |-> TRUE]
        ELSE [self |-> add_miss_stat([s2 EXCEPT !.history = Put(@, line_number, s2.requests)],
                                     FALSE,
                                     IF line_number \notin DOMAIN s2.history
                                     THEN -1
                                     ELSE s2.requests - s2.history[line_number]),
              verdict |-> FALSE]

\* A get that looks the line up in history after recording it there.
Cache_get_RecordsBeforeLookup(r, line_number) ==
    LET s1 == [r.self EXCEPT !.requests = @ + 1]
    IN  IF r.verdict
        THEN LET s2 == [s1 EXCEPT !.hits = @ + 1]
             IN  [self |-> add_miss_stat(s2, TRUE, s2.requests - s2.history[line_number]),
                  verdict |-> TRUE]
        ELSE LET known == line_number \in DOMAIN s1.history
                 s2 == [s1 EXCEPT !.history = Put(@, line_number, s1.requests)]
             IN  [self |-> add_miss_stat(s2, FALSE,
                                         IF known
                                         THEN s1.requests - s1.history[line_number]
                                         ELSE s2.requests - s2.history[line_number]),
                  verdict |-> FALSE]

\* Cache.get from the return of _in_cache on: `r` is what _in_cache left,
\* the object and the verdict.  history[line_number] of a line that is not
\* a key is a KeyError in the code and an evaluation error here.
Cache_get(r, line_number) ==
    LET s1 == [r.self EXCEPT !.requests = @ + 1]
    IN  IF r.verdict
        THEN LET s2 == [s1 EXCEPT !.hits = @ + 1]
                 in_cache_for == s2.requests - s2.history[line_number]
             IN  [self |-> add_miss_stat(s2, TRUE, in_cache_for), verdict |-> TRUE]
        ELSE LET not_in_cache_for ==
                     IF line_number \notin DOMAIN s1.history
                     THEN -1
                     ELSE s1.requests - s1.history[line_number]
                 s2 == [s1 EXCEPT !.history = Put(@, line_number, s1.requests)]
             IN  [self |-> add_miss_stat(s2, FALSE, not_in_cache_for), verdict |-> FALSE]

\* Division of misses * 1.0 by requests: the quotient as a fraction.
get_hit_stat(self) ==
    LET misses == self.requests - self.hits
    IN  IF self.requests = 0
        THEN [raised |-> "ZeroDivisionError"]
        ELSE [raised |-> "none",
              requests |-> self.requests,
              hits |-> self.hits,
              misses |-> misses,
              miss_chance |-> [num |-> misses, den |-> self.requests]]

\* Counter over the parsed lines of a log, then sorted(counter.items()).
Counter(file) ==
    LET vals == [i \in 1..Len(file) |-> ParseInt(file[i])]
    IN  [v \in Range(vals) |-> Cardinality({i \in 1..Len(file) : vals[i] = v})]

RECURSIVE SortedItems(_)
SortedItems(counter) ==
    IF DOMAIN counter = {} THEN <<>>
    ELSE LET k == CHOOSE x \in DOMAIN counter : \A y \in DOMAIN counter : x <= y
         IN  <<<<k, counter[k]>>>> \o SortedItems(Del(counter, k))

get_extended_stat(self) ==
    [in_cache |-> SortedItems(Counter(self.in_cache_file)),
     not_in_cache |-> SortedItems(Counter(self.not_in_cache_file))]

----------------------------------------------------------------------------
\* class DirectCache

DirectCache(line_size, size) ==
    LET base == Cache_init(line_size, size)
    IN  Attrs(base, [kind |-> "DirectCache",
                     cache |-> [i \in 0..(base.blocks - 1) |-> -1],
                     history |-> Put(base.history, -1, 0)])

\* A lookup that keeps every line in slot 0.
DirectCache_in_cache_OneSlot(self, line_number) ==
    LET v == self.cache[0]
    IN  IF v = line_number
        THEN [self |-> self, verdict |-> TRUE]
        ELSE [self |-> [self EXCEPT !.history = Put(@, v, self.requests),
                                    !.cache[0] = line_number],
              verdict |-> FALSE]

\* A lookup that fills an empty slot and never replaces an occupant.
DirectCache_in_cache_KeepsOccupant(self, line_number) ==
    LET slot_number == line_number % self.blocks
        v == self.cache[slot_number]
    IN  IF v = line_number
        THEN [self |-> self, verdict |-> TRUE]
        ELSE [self |-> [self EXCEPT !.history = Put(@, v, self.requests),
                                    !.cache[slot_number] = IF v = -1 THEN line_number ELSE v],
              verdict |-> FALSE]

DirectCache_in_cache(self, line_number) ==
    LET slot_number == line_number % self.blocks
        v == self.cache[slot_number]
    IN  IF v = line_number
        THEN [self |-> self, verdict |-> TRUE]
        ELSE [self |-> [self EXCEPT !.history = Put(@, v, self.requests),
                                    !.cache[slot_number] = line_number],
              verdict |-> FALSE]

\* A get that takes the address for the line number.
DirectCache_get_NoDivision(self, a) ==
    Cache_get(DirectCache_in_cache(self, a), a)

DirectCache_get(self, a) ==
    LET line_number == a \div self.line_size
    IN  Cache_get(DirectCache_in_cache(self, line_number), line_number)

----------------------------------------------------------------------------
\* The displacement strategies.  Each gives the set of lines it may return:
\* random.choice any key; sorted(...)[0][0] a key of least value, which one
\* among equal values being left to the dict's iteration order.

\* A random choice among slot indices instead of resident lines.
random_displacement_SlotIndex(c) == 0..(Cardinality(DOMAIN c) - 1)

random_displacement(c) == DOMAIN c

\* The newest line instead of the oldest.
oldest_displacement_Newest(c) == {l \in DOMAIN c : \A m \in DOMAIN c : c[l] >= c[m]}

oldest_displacement(c) == {l \in DOMAIN c : \A m \in DOMAIN c : c[l] <= c[m]}

displacement_strategy(self) ==
    IF self.displacement_strategy = "oldest_displacement"
    THEN oldest_displacement(self.cache)
    ELSE random_displacement(self.cache)

----------------------------------------------------------------------------
\* class FullyAssociativeCache

FullyAssociativeCache(line_size, size, strategy) ==
    Attrs(Cache_init(line_size, size),
          [kind |-> "FullyAssociativeCache",
           displacement_strategy |-> strategy,
           cache |-> <<>>,
           used_size |-> 0,
           last_replaced |-> -1])

\* Whether _in_cache calls the displacement strategy for this line.
Displaces(self, line_number) ==
    line_number \notin DOMAIN self.cache /\ ~(self.used_size < self.blocks)

\* The values the strategy call of _in_cache may return (-1: it is not called).
Victims(self, line_number) ==
    IF Displaces(self, line_number) THEN displacement_strategy(self) ELSE {-1}

\* An _in_cache that reports the incoming line as the one replaced.
FullyAssociativeCache_in_cache_ReportsIncoming(self, line_number, to_be_replaced) ==
    IF line_number \in DOMAIN self.cache
    THEN [self |-> self, verdict |-> TRUE]
    ELSE LET s1 == IF self.used_size < self.blocks
                   THEN [self EXCEPT !.used_size = @ + 1,
                                     !.last_replaced = -1]
                   ELSE [self EXCEPT !.history = Put(@, to_be_replaced, self.requests + 1),
                                     !.last_replaced = line_number,
                                     !.cache = Del(@, to_be_replaced)]
         IN  [self |-> [s1 EXCEPT !.cache = Put(@, line_number, self.requests + 1)],
              verdict |-> FALSE]

\* _in_cache, `to_be_replaced` being what the strategy returned.
\* An _in_cache that stamps an inserted line with the occupancy.
FullyAssociativeCache_in_cache_StampsOccupancy(self, line_number, to_be_replaced) ==
    IF line_number \in DOMAIN self.cache
    THEN [self |-> self, verdict |-> TRUE]
    ELSE LET s1 == IF self.used_size < self.blocks
                   THEN [self EXCEPT !.used_size = @ + 1,
                                     !.last_replaced = -1]
                   ELSE [self EXCEPT !.history = Put(@, to_be_replaced, self.requests + 1),
                                     !.last_replaced = to_be_replaced,
                                     !.cache = Del(@, to_be_replaced)]
         IN  [self |-> [s1 EXCEPT !.cache = Put(@, line_number, s1.used_size)],
              verdict |-> FALSE]

\* An _in_cache that stamps the victim in history but leaves it in the cache.
FullyAssociativeCache_in_cache_KeepsVictim(self, line_number, to_be_replaced) ==
    IF line_number \in DOMAIN self.cache
    THEN [self |-> self, verdict |-> TRUE]
    ELSE LET s1 == IF self.used_size < self.blocks
                   THEN [self EXCEPT !.used_size = @ + 1,
                                     !.last_replaced = -1]
                   ELSE [self EXCEPT !.history = Put(@, to_be_replaced, self.requests + 1),
                                     !.last_replaced = to_be_replaced]
         IN  [self |-> [s1 EXCEPT !.cache = Put(@, line_number, self.requests + 1)],
              verdict |-> FALSE]

FullyAssociativeCache_in_cache(self, line_number, to_be_replaced) ==
    IF line_number \in DOMAIN self.cache
    THEN [self |-> self, verdict |-> TRUE]
    ELSE LET s1 == IF self.used_size < self.blocks
                   THEN [self EXCEPT !.used_size = @ + 1,
                                     !.last_replaced = -1]
                   ELSE [self EXCEPT !.history = Put(@, to_be_replaced, self.requests + 1),
                                     !.last_replaced = to_be_replaced,
                                     !.cache = Del(@, to_be_replaced)]
         IN  [self |-> [s1 EXCEPT !.cache = Put(@, line_number, self.requests + 1)],
              verdict |-> FALSE]

FullyAssociativeCache_get(self, a, to_be_replaced) ==
    LET line_number == a \div self.line_size
    IN  Cache_get(FullyAssociativeCache_in_cache(self, line_number, to_be_replaced),
                  line_number)

----------------------------------------------------------------------------
\* class SetAssociativeCache

\* A constructor that gives each set half of its bytes.
SetAssociativeCache_HalfSets(line_size, size, strategy, sets_amount) ==
    LET base == Cache_init(line_size, size)
        sets_block_size == size \div sets_amount
    IN  Attrs(base,
              [kind |-> "SetAssociativeCache",
               sets_block_size |-> sets_block_size,
               cache |-> [i \in 0..(sets_amount - 1) |->
                             FullyAssociativeCache(line_size, sets_block_size \div 2, strategy)],
               sets_amount |-> sets_amount])

SetAssociativeCache(line_size, size, strategy, sets_amount) ==
    LET base == Cache_init(line_size, size)
        sets_block_size == size \div sets_amount
    IN  Attrs(base,
              [kind |-> "SetAssociativeCache",
               sets_block_size |-> sets_block_size,
               cache |-> [i \in 0..(sets_amount - 1) |->
                             FullyAssociativeCache(line_size, sets_block_size, strategy)],
               sets_amount |-> sets_amount])

\* A set chosen by the low bits of the line number.
set_number_LowBits(self, line_number) == line_number % self.sets_amount

set_number(self, line_number) ==
    (line_number \div self.sets_block_size) % self.sets_amount

\* _in_cache, `to_be_replaced` being what the inner set's strategy returned.
SetAssociativeCache_in_cache(self, line_number, to_be_replaced) ==
    LET n == set_number(self, line_number)
        res == FullyAssociativeCache_get(self.cache[n], line_number * self.line_size,
                                         to_be_replaced)
        lr == res.self.last_replaced
        s1 == [self EXCEPT !.cache[n] = res.self]
    IN  [self |-> IF lr # -1
                  THEN [s1 EXCEPT !.history = Put(@, lr, self.requests + 1)]
                  ELSE s1,
         verdict |-> res.verdict]

SetAssociativeCache_get(self, a, to_be_replaced) ==
    LET line_number == a \div self.line_size
    IN  Cache_get(SetAssociativeCache_in_cache(self, line_number, to_be_replaced),
                  line_number)

----------------------------------------------------------------------------
\* main(): the five preconfigured caches, one of which is simulated.

Choice ==
    {DirectCache(LineSize, Size),
     FullyAssociativeCache(LineSize, Size, "oldest_displacement"),
     FullyAssociativeCache(LineSize, Size, "random_displacement"),
     SetAssociativeCache(LineSize, SetAssocSize, "oldest_displacement", SetsAmount),
     SetAssociativeCache(LineSize, SetAssocSize, "random_displacement", SetsAmount)}

Init ==
    /\ cache \in Choice
    /\ pc = "algo"
    /\ addr = -1
    /\ verdict = FALSE
    /\ trace = <<>>
    /\ report = [raised |-> "none"]
    /\ loop = [at |-> "none"]


\* The lines resident in a cache object.
Resident(c) ==
    IF c.kind = "DirectCache" THEN Range(c.cache) \ {-1}
    ELSE IF c.kind = "FullyAssociativeCache" THEN DOMAIN c.cache
    ELSE UNION {DOMAIN c.cache[i].cache : i \in DOMAIN c.cache}

\* One cache.get(a) of the driver: what the call returns and leaves behind.
Returned(res, a) ==
    /\ cache' = res.self
    /\ verdict' = res.verdict
    /\ addr' = a
    /\ trace' = Append(trace, [line |-> a \div cache.line_size,
                                verdict |-> res.verdict,
                                evicted |-> Resident(cache) \ Resident(res.self)])
    /\ UNCHANGED <<pc, report>>

\* The exception a get of address a raises, "none" if it returns: with no
\* block, DirectCache._in_cache divides by zero (line_number % self.blocks)
\* and a displacement strategy indexes or chooses from an empty sequence;
\* with sets of size 0, SetAssociativeCache._in_cache divides by zero.
Raises(c, a) ==
    LET line_number == a \div c.line_size
    IN  IF c.kind = "DirectCache"
        THEN IF c.blocks = 0 THEN "ZeroDivisionError" ELSE "none"
        ELSE IF c.kind = "SetAssociativeCache" /\ c.sets_block_size = 0
        THEN "ZeroDivisionError"
        ELSE LET fa == IF c.kind = "SetAssociativeCache"
                       THEN c.cache[set_number(c, line_number)]
                       ELSE c
             IN  IF Displaces(fa, line_number) /\ DOMAIN fa.cache = {}
                 THEN "IndexError"
                 ELSE "none"

DirectGet(a) ==
    /\ pc = "algo"
    /\ cache.kind = "DirectCache"
    /\ cache.requests < MaxRequests
    /\ Raises(cache, a) = "none"
    /\ Returned(DirectCache_get(cache, a), a)
    /\ UNCHANGED loop

FullyAssociativeGet(a) ==
    /\ pc = "algo"
    /\ cache.kind = "FullyAssociativeCache"
    /\ cache.requests < MaxRequests
    /\ Raises(cache, a) = "none"
    /\ \E to_be_replaced \in Victims(cache, a \div cache.line_size) :
          Returned(FullyAssociativeCache_get(cache, a, to_be_replaced), a)
    /\ UNCHANGED loop

SetAssociativeGet(a) ==
    /\ pc = "algo"
    /\ cache.kind = "SetAssociativeCache"
    /\ cache.requests < MaxRequests
    /\ Raises(cache, a) = "none"
    /\ UNCHANGED loop
    /\ LET line_number == a \div cache.line_size
       IN  \E to_be_replaced \in Victims(cache.cache[set_number(cache, line_number)],
                                         line_number) :
              Returned(SetAssociativeCache_get(cache, a, to_be_replaced), a)

\* try_algo after algo(): cache.flush(True)
FlushTrue ==
    /\ pc = "algo"
    /\ cache' = flush(cache, TRUE)
    /\ pc' = "flush_false"
    /\ UNCHANGED <<addr, verdict, trace, report, loop>>

\* cache.flush(False)
FlushFalse ==
    /\ pc = "flush_false"
    /\ cache' = flush(cache, FALSE)
    /\ pc' = "report"
    /\ UNCHANGED <<addr, verdict, trace, report, loop>>

\* The dump of get_hit_stat() and get_extended_stat(); the division by zero
\* requests raises before the extended statistics are read.
Report ==
    /\ pc = "report"
    /\ LET hit_stat == get_hit_stat(cache)
       IN  IF hit_stat.raised # "none"
           THEN /\ report' = hit_stat
                /\ pc' = "aborted"
           ELSE /\ report' = Attrs(hit_stat, get_extended_stat(cache))
                /\ pc' = "done"
    /\ UNCHANGED <<cache, addr, verdict, trace, loop>>

Next ==
    \/ \E a \in Addrs : DirectGet(a)
    \/ \E a \in Addrs : FullyAssociativeGet(a)
    \/ \E a \in Addrs : SetAssociativeGet(a)
    \/ FlushTrue
    \/ FlushFalse
    \/ Report

Spec == Init /\ [][Next]_vars

----------------------------------------------------------------------------
\* Construction with arguments of the caller's choosing: the classes take
\* any line_size and size.  The arguments tried are 0, main()'s (scaled)
\* value and a value that does not divide evenly.

LineSizeArgs == {0, LineSize, LineSize + 1}
SizeArgs == {0, Size, Size + 1}
Modes == {"direct", "associative_oldest", "associative_random", "set_oldest", "set_random"}

\* Cache.__init__ divides size by line_size before anything else.
ConstructRaises(mode, line_size, size) ==
    IF line_size = 0 THEN "ZeroDivisionError" ELSE "none"

Construct(mode, line_size, size) ==
    IF mode = "direct" THEN DirectCache(line_size, size)
    ELSE IF mode = "associative_oldest"
    THEN FullyAssociativeCache(line_size, size, "oldest_displacement")
    ELSE IF mode = "associative_random"
    THEN FullyAssociativeCache(line_size, size, "random_displacement")
    ELSE IF mode = "set_oldest"
    THEN SetAssociativeCache(line_size, size, "oldest_displacement", SetsAmount)
    ELSE SetAssociativeCache(line_size, size, "random_displacement", SetsAmount)

InitMain ==
    /\ cache = [kind |-> "none"]
    /\ pc = "main"
    /\ addr = -1
    /\ verdict = FALSE
    /\ trace = <<>>
    /\ report = [raised |-> "none"]
    /\ loop = [at |-> "none"]

\* The constructor call: it raises, or the object goes to try_algo.
New(mode, line_size, size) ==
    /\ pc = "main"
    /\ IF ConstructRaises(mode, line_size, size) # "none"
       THEN /\ pc' = "aborted"
            /\ report' = [raised |-> ConstructRaises(mode, line_size, size)]
            /\ UNCHANGED cache
       ELSE /\ pc' = "algo"
            /\ cache' = Construct(mode, line_size, size)
            /\ UNCHANGED report
    /\ UNCHANGED <<addr, verdict, trace, loop>>

\* A get that raises: the exception leaves try_algo and ends the run.
GetRaises(a) ==
    /\ pc = "algo"
    /\ cache.requests < MaxRequests
    /\ Raises(cache, a) # "none"
    /\ pc' = "aborted"
    /\ report' = [raised |-> Raises(cache, a)]
    /\ addr' = a
    /\ UNCHANGED <<cache, verdict, trace, loop>>

NextConstruct ==
    \/ \E mode \in Modes, line_size \in LineSizeArgs, size \in SizeArgs :
          New(mode, line_size, size)
    \/ \E a \in Addrs : GetRaises(a)
    \/ Next

SpecConstruct == InitMain /\ [][NextConstruct]_vars

----------------------------------------------------------------------------
\* try_algo with the trace driver algo: Memory, Matrix and the three nested
\* loops, one step per cache.get call.

\* Memory.allocate: the new base and the address returned.
allocate(base, size_t, n) ==
    [base |-> base + size_t * n, addr |-> (base + size_t * n) - size_t * n]

\* The matrices a, b, c of try_algo, allocated in this order from base 0.
Matrices(n, element_size) ==
    LET ma == allocate(0, element_size, n * n)
        mb == allocate(ma.base, element_size, n * n)
        mc == allocate(mb.base, element_size, n * n)
    IN  [a |-> [base |-> ma.addr, size_t |-> element_size],
         b |-> [base |-> mb.addr, size_t |-> element_size],
         c |-> [base |-> mc.addr, size_t |-> element_size]]

get_addr(matrix, position) == matrix.base + matrix.size_t * position

\* The address of the cag call at source line l.at, for the loop variables l.
AlgoAddr(l) ==
    LET m == Matrices(l.n, ElementSize)
    IN  IF l.at = "208" THEN get_addr(m.c, l.i * l.n + l.j)
        ELSE IF l.at = "210" THEN get_addr(m.a, l.i * l.n + l.k)
        ELSE IF l.at = "211" THEN get_addr(m.b, l.i * l.n + l.k)
        ELSE get_addr(m.c, l.i * l.n + l.j)

\* The loops entered with dimension n.
Enter(n) == [n |-> n, i |-> 0, j |-> 0, k |-> 0, at |-> IF n = 0 THEN "return" ELSE "208"]

\* The next cag call after the one at l.at.
Advance(l) ==
    IF l.at = "208" THEN [l EXCEPT !.at = "210", !.k = 0]
    ELSE IF l.at = "210" THEN [l EXCEPT !.at = "211"]
    ELSE IF l.at = "211" THEN [l EXCEPT !.at = "212"]
    ELSE IF l.k + 1 < l.n THEN [l EXCEPT !.at = "210", !.k = @ + 1]
    ELSE IF l.j + 1 < l.n THEN [l EXCEPT !.at = "208", !.j = @ + 1, !.k = 0]
    ELSE IF l.i + 1 < l.n THEN [l EXCEPT !.at = "208", !.i = @ + 1, !.j = 0, !.k = 0]
    ELSE [l EXCEPT !.at = "return"]

\* cache.get whatever the class of the cache.
GetOf(c, a, to_be_replaced) ==
    IF c.kind = "DirectCache" THEN DirectCache_get(c, a)
    ELSE IF c.kind = "FullyAssociativeCache"
    THEN FullyAssociativeCache_get(c, a, to_be_replaced)
    ELSE SetAssociativeCache_get(c, a, to_be_replaced)

VictimsOf(c, a) ==
    LET line_number == a \div c.line_size
    IN  IF c.kind = "DirectCache" THEN {-1}
        ELSE IF c.kind = "FullyAssociativeCache" THEN Victims(c, line_number)
        ELSE Victims(c.cache[set_number(c, line_number)], line_number)

\* main()'s five caches with the arguments as written.
MainChoice ==
    {DirectCache(MainLineSize, MainSize),
     FullyAssociativeCache(MainLineSize, MainSize, "oldest_displacement"),
     FullyAssociativeCache(MainLineSize, MainSize, "random_displacement"),
     SetAssociativeCache(MainLineSize, MainSize, "oldest_displacement", MainSets),
     SetAssociativeCache(MainLineSize, MainSize, "random_displacement", MainSets)}

InitAlgo ==
    /\ cache \in MainChoice
    /\ pc = "loops"
    /\ addr = -1
    /\ verdict = FALSE
    /\ trace = <<>>
    /\ report = [raised |-> "none"]
    /\ loop \in {Enter(n) : n \in 0..MaxN}

\* One cag(...) call of algo.
AlgoGet ==
    /\ pc = "loops"
    /\ loop.at # "return"
    /\ \E to_be_replaced \in VictimsOf(cache, AlgoAddr(loop)) :
          Returned(GetOf(cache, AlgoAddr(loop), to_be_replaced), AlgoAddr(loop))
    /\ loop' = Advance(loop)

\* algo returns to try_algo.
AlgoReturn ==
    /\ pc = "loops"
    /\ loop.at = "return"
    /\ pc' = "algo"
    /\ UNCHANGED <<cache, addr, verdict, trace, report, loop>>

NextAlgo ==
    \/ AlgoGet
    \/ AlgoReturn
    \/ FlushTrue
    \/ FlushFalse
    \/ Report

SpecAlgo == InitAlgo /\ [][NextAlgo]_vars

----------------------------------------------------------------------------
\* Two caches fed the same addresses: a SetAssociativeCache of one set and a
\* FullyAssociativeCache of the same line_size and size, both with
\* oldest_displacement. cache, verdict and report hold one value per cache.

PairSizes == {Size, SetAssocSize}

Pair(size) ==
    [kind |-> "pair",
     sa |-> SetAssociativeCache(LineSize, size, "oldest_displacement", 1),
     fa |-> FullyAssociativeCache(LineSize, size, "oldest_displacement")]

InitPair ==
    /\ cache \in {Pair(size) : size \in PairSizes}
    /\ pc = "algo"
    /\ addr = -1
    /\ verdict = [sa |-> FALSE, fa |-> FALSE]
    /\ trace = <<>>
    /\ report = [sa |-> [raised |-> "none"], fa |-> [raised |-> "none"]]
    /\ loop = [at |-> "none"]

\* get(a) on both caches.
PairGet(a) ==
    /\ pc = "algo"
    /\ cache.fa.requests < MaxRequests
    /\ \E v \in VictimsOf(cache.sa, a), w \in VictimsOf(cache.fa, a) :
          LET rs == SetAssociativeCache_get(cache.sa, a, v)
              rf == FullyAssociativeCache_get(cache.fa, a, w)
          IN  /\ cache' = [cache EXCEPT !.sa = rs.self, !.fa = rf.self]
              /\ verdict' = [sa |-> rs.verdict, fa |-> rf.verdict]
              /\ trace' = Append(trace, [line |-> a \div LineSize,
                                         verdict |-> rf.verdict,
                                         evicted |-> Resident(cache.fa) \ Resident(rf.self)])
    /\ addr' = a
    /\ UNCHANGED <<pc, report, loop>>

\* The end of try_algo on both caches: both flushes, then get_hit_stat.
PairReport ==
    /\ pc = "algo"
    /\ cache' = [cache EXCEPT !.sa = flush(flush(@, TRUE), FALSE),
                              !.fa = flush(flush(@, TRUE), FALSE)]
    /\ report' = [sa |-> get_hit_stat(cache.sa), fa |-> get_hit_stat(cache.fa)]
    /\ pc' = "done"
    /\ UNCHANGED <<addr, verdict, trace, loop>>

NextPair ==
    \/ \E a \in Addrs : PairGet(a)
    \/ PairReport

SpecPair == InitPair /\ [][NextPair]_vars

----------------------------------------------------------------------------
\* What the properties below speak of.


\* The step is a get call.
GetStep == Len(trace') = Len(trace) + 1

\* The get calls so far that returned true, and those that returned false.
TrueCalls == {i \in DOMAIN trace : trace[i].verdict}
FalseCalls == {i \in DOMAIN trace : ~trace[i].verdict}

Max(S) == CHOOSE x \in S : \A y \in S : y <= x

----------------------------------------------------------------------------
\* C1: for every organization, after any sequence of get calls requests is
\* hits + misses, hits being the number of get calls that returned true and
\* misses the number that returned false, 0 <= hits <= requests, and the
\* miss_chance of get_hit_stat lies in [0, 1] whenever requests > 0.
C1_RequestsAreHitsPlusMisses ==
    /\ cache.hits = Cardinality(TrueCalls)
    /\ cache.requests - cache.hits = Cardinality(FalseCalls)
    /\ cache.requests = Cardinality(TrueCalls) + Cardinality(FalseCalls)
    /\ 0 <= cache.hits /\ cache.hits <= cache.requests
    /\ cache.requests > 0 =>
          LET stat == get_hit_stat(cache)
          IN  /\ stat.hits = Cardinality(TrueCalls)
              /\ stat.misses = Cardinality(FalseCalls)
              /\ stat.requests = stat.hits + stat.misses
              /\ 0 <= stat.miss_chance.num
              /\ stat.miss_chance.num <= stat.miss_chance.den
              /\ stat.miss_chance.den > 0

C1_Witness ==
    /\ cache.kind = "SetAssociativeCache"
    /\ cache.hits >= 2
    /\ cache.requests - cache.hits >= 2

\* C2: for each organization, get(addr) returns true iff the line
\* floor(addr / line_size) was resident immediately before the call, and
\* immediately after the call that line is resident.
C2_VerdictIsResidency ==
    [][GetStep =>
          LET line == addr' \div cache.line_size
          IN  /\ verdict' <=> line \in Resident(cache)
              /\ line \in Resident(cache')]_vars

\* A hit through the second address of a line, after a line has been replaced.
C2_Witness ==
    /\ verdict
    /\ addr % LineSize = 1
    /\ Cardinality({trace[i].line : i \in FalseCalls}) > Cardinality(Resident(cache))

\* C3: DirectCache: once line L has been accessed, a later get of L hits as
\* long as no get of a different line of the same slot has occurred since the
\* previous access of L, whatever accesses to other slots are interleaved.
C3_UndisturbedLineHits ==
    [][(GetStep /\ cache.kind = "DirectCache") =>
          LET L == addr' \div cache.line_size
              before == {i \in DOMAIN trace : trace[i].line = L}
          IN  (/\ before # {}
               /\ \A j \in (Max(before) + 1)..Len(trace) :
                     ~(/\ trace[j].line # L
                       /\ trace[j].line % cache.blocks = L % cache.blocks))
              => verdict']_vars

\* The line is asked for again after a get of a line of another slot.
C3_Witness ==
    /\ cache.kind = "DirectCache"
    /\ Len(trace) >= 3
    /\ trace[Len(trace)].line = trace[Len(trace) - 2].line
    /\ trace[Len(trace) - 1].line % cache.blocks # trace[Len(trace)].line % cache.blocks
    /\ verdict

\* The trace is a round-robin over k distinct lines of one slot.
RoundRobin(k) ==
    /\ k <= Len(trace)
    /\ \A i, j \in 1..k :
          /\ i # j => trace[i].line # trace[j].line
          /\ trace[i].line % cache.blocks = trace[j].line % cache.blocks
    /\ \A i \in (k + 1)..Len(trace) : trace[i].line = trace[i - k].line

\* C4: DirectCache with block_count B: when B + 1, or any number >= 2, of
\* distinct lines of the same slot are accessed repeatedly in round-robin
\* order, every one of those get calls misses.
C4_RoundRobinAlwaysMisses ==
    cache.kind = "DirectCache" =>
        \A k \in 2..Len(trace) :
            RoundRobin(k) => \A i \in DOMAIN trace : ~trace[i].verdict

\* B + 1 lines of one slot, gone round more than once.
C4_Witness ==
    /\ cache.kind = "DirectCache"
    /\ RoundRobin(cache.blocks + 1)
    /\ Len(trace) > cache.blocks + 2
    /\ cache.hits = 0

----------------------------------------------------------------------------
\* The strategy of a fully associative cache, or of the sets of a set
\* associative one.
Strategy(c) ==
    IF c.kind = "FullyAssociativeCache" THEN c.displacement_strategy
    ELSE IF c.kind = "SetAssociativeCache" THEN c.cache[0].displacement_strategy
    ELSE "none"

\* The lines the step removes from the cache.
Evicted == Resident(cache) \ Resident(cache')

\* The most recent get of a line, and the most recent get that missed it
\* (the one that inserted a resident line).
LastAccess(l) == Max({i \in DOMAIN trace : trace[i].line = l})
LastInsertion(l) == Max({i \in FalseCalls : trace[i].line = l})

\* The lines that compete with line l for room: the whole cache, or l's set.
Competitors(c, l) ==
    IF c.kind = "SetAssociativeCache"
    THEN DOMAIN c.cache[(l \div c.sets_block_size) % c.sets_amount].cache
    ELSE DOMAIN c.cache

\* C5 as stated: the oldest strategy evicts the resident line whose most
\* recent get, hit or miss, is the earliest among all resident lines.
C5_EvictsLeastRecentlyAccessed ==
    [][(GetStep /\ cache.kind = "FullyAssociativeCache"
                /\ Strategy(cache) = "oldest_displacement" /\ Evicted # {}) =>
          \E v \in Resident(cache) :
              /\ Evicted = {v}
              /\ \A m \in Resident(cache) : LastAccess(v) <= LastAccess(m)]_vars

\* C5, amended: the oldest strategy evicts the resident line that was
\* inserted earliest, that is, whose most recent miss (the get that loaded
\* it) is the earliest among the resident lines it competes with; hits on a
\* line between its insertion and the eviction do not postpone its eviction.
C5_EvictsEarliestInserted ==
    [][(GetStep /\ Strategy(cache) = "oldest_displacement" /\ Evicted # {}) =>
          LET among == Competitors(cache, addr' \div cache.line_size)
          IN  \E v \in among :
                  /\ Evicted = {v}
                  /\ \A m \in among : LastInsertion(v) <= LastInsertion(m)]_vars

\* The line just evicted had been hit after the line that stayed was loaded.
C5_Witness ==
    /\ cache.kind = "FullyAssociativeCache"
    /\ Strategy(cache) = "oldest_displacement"
    /\ Len(trace) >= 4
    /\ ~verdict
    /\ cache.last_replaced # -1
    /\ \E j \in TrueCalls :
          /\ trace[j].line = cache.last_replaced
          /\ \E m \in DOMAIN cache.cache : cache.cache[m] < j

\* C6: FullyAssociativeCache with the oldest strategy and block_count B:
\* when the cache holds B distinct lines and a get of a non-resident line
\* occurs, the line removed, and reported in last_replaced, is exactly the
\* resident line with the smallest timestamp in the resident mapping, and no
\* other resident line is removed.
C6_OldestVictimHasSmallestTimestamp ==
    [][(GetStep /\ cache.kind = "FullyAssociativeCache"
                /\ cache.displacement_strategy = "oldest_displacement"
                /\ Cardinality(DOMAIN cache.cache) = cache.blocks
                /\ (addr' \div cache.line_size) \notin DOMAIN cache.cache) =>
          \E v \in DOMAIN cache.cache :
              /\ \A m \in (DOMAIN cache.cache) \ {v} : cache.cache[v] < cache.cache[m]
              /\ cache'.last_replaced = v
              /\ DOMAIN cache'.cache =
                    ((DOMAIN cache.cache) \ {v}) \cup {addr' \div cache.line_size}
              /\ \A m \in (DOMAIN cache.cache) \ {v} : cache'.cache[m] = cache.cache[m]]_vars

\* A full cache has just replaced a line on a miss.
C6_Witness ==
    /\ cache.kind = "FullyAssociativeCache"
    /\ cache.displacement_strategy = "oldest_displacement"
    /\ cache.used_size = cache.blocks
    /\ ~verdict
    /\ cache.last_replaced # -1
    /\ cache.last_replaced \notin DOMAIN cache.cache

\* C7: FullyAssociativeCache with the random strategy: on every miss at full
\* capacity, whichever victim the strategy picks was resident immediately
\* before the call and is not the incoming line; exactly one line is removed
\* and the incoming line is inserted.
C7_RandomVictimWasResident ==
    [][(GetStep /\ cache.kind = "FullyAssociativeCache"
                /\ cache.displacement_strategy = "random_displacement"
                /\ Cardinality(DOMAIN cache.cache) = cache.blocks
                /\ ~verdict') =>
          LET line == addr' \div cache.line_size
              v == cache'.last_replaced
          IN  /\ v \in DOMAIN cache.cache
              /\ v # line
              /\ DOMAIN cache'.cache = ((DOMAIN cache.cache) \ {v}) \cup {line}
              /\ Cardinality(DOMAIN cache'.cache) = Cardinality(DOMAIN cache.cache)]_vars

\* The random strategy has just replaced a line newer than one it kept.
C7_Witness ==
    /\ cache.kind = "FullyAssociativeCache"
    /\ cache.displacement_strategy = "random_displacement"
    /\ ~verdict
    /\ cache.last_replaced # -1
    /\ \E m \in DOMAIN cache.cache :
          cache.cache[m] < LastInsertion(cache.last_replaced)

\* C8: SetAssociativeCache: a get of a line of set s, s being
\* (line_number / set_block_size) mod sets_amount, never changes the resident
\* set of any other set; overflowing one set evicts nothing from another.
C8_OtherSetsUntouched ==
    [][(GetStep /\ cache.kind = "SetAssociativeCache") =>
          LET line == addr' \div cache.line_size
              s == (line \div cache.sets_block_size) % cache.sets_amount
          IN  \A t \in (DOMAIN cache.cache) \ {s} :
                  DOMAIN cache'.cache[t].cache = DOMAIN cache.cache[t].cache]_vars

\* One set has just overflowed while the other holds a line.
C8_Witness ==
    /\ cache.kind = "SetAssociativeCache"
    /\ Len(trace) >= 1
    /\ ~verdict
    /\ \E s, t \in DOMAIN cache.cache :
          /\ s # t
          /\ s = (trace[Len(trace)].line \div cache.sets_block_size) % cache.sets_amount
          /\ cache.cache[s].last_replaced # -1
          /\ DOMAIN cache.cache[t].cache # {}

----------------------------------------------------------------------------
\* The sum of the counts of a sorted (gap, count) list.
RECURSIVE SumCounts(_)
SumCounts(items) ==
    IF items = <<>> THEN 0 ELSE Head(items)[2] + SumCounts(Tail(items))

\* C9: for every organization, after any number of get calls followed by
\* flush(True) and flush(False), the counts get_extended_stat reports sum to
\* requests over both streams, to hits in in_cache and to requests - hits in
\* not_in_cache, whether or not automatic flushes happened on the way.
C9_ExtendedStatCountsEveryRequest ==
    pc \in {"report", "done", "aborted"} =>
        LET stat == get_extended_stat(cache)
        IN  /\ SumCounts(stat.in_cache) + SumCounts(stat.not_in_cache) = cache.requests
            /\ SumCounts(stat.in_cache) = Cardinality(TrueCalls)
            /\ SumCounts(stat.in_cache) = cache.hits
            /\ SumCounts(stat.not_in_cache) = cache.requests - cache.hits
            /\ pc = "done" =>
                  /\ report.in_cache = stat.in_cache
                  /\ report.not_in_cache = stat.not_in_cache

\* The report of a run whose hit stream was flushed automatically (more hits
\* than the threshold, of several gaps) and whose miss stream reached its log
\* only by the final flush.
C9_Witness ==
    /\ pc = "done"
    /\ cache.hits > FlushThreshold
    /\ cache.requests - cache.hits \in 1..FlushThreshold
    /\ Len(report.in_cache) >= 2
    /\ report.not_in_cache # <<>>

\* Every sample recorded so far in a stream, in recording order: the lines
\* of its log, read back, then its buffer.
Recorded(file, buffer) == [i \in 1..Len(file) |-> ParseInt(file[i])] \o buffer
MissStream == Recorded(cache.not_in_cache_file, cache.not_in_cache_history)
HitStream == Recorded(cache.in_cache_file, cache.in_cache_history)

\* The place in the miss stream of the sample of the miss that is call i.
MissRank(i) == Cardinality({j \in FalseCalls : j <= i})

FirstTouch(i) == \A j \in 1..(i - 1) : trace[j].line # trace[i].line

\* C10: for every organization, a get that misses records the first-touch
\* sentinel -1 in the miss stream iff the line has never been requested
\* before on that cache; the number of -1 samples ever recorded is the number
\* of distinct lines requested, and the first get of any line is a miss.
C10_SentinelIffFirstTouch ==
    LET misses == MissStream
        hits == HitStream
    IN  /\ Len(misses) = Cardinality(FalseCalls)
        /\ \A i \in FalseCalls : (misses[MissRank(i)] = -1) <=> FirstTouch(i)
        /\ Cardinality({k \in DOMAIN misses : misses[k] = -1})
             + Cardinality({k \in DOMAIN hits : hits[k] = -1})
           = Cardinality({trace[i].line : i \in DOMAIN trace})
        /\ \A i \in DOMAIN trace : FirstTouch(i) => ~trace[i].verdict

\* A line evicted and missed again (no sentinel) beside first touches, some
\* of the samples already in the log.
C10_Witness ==
    /\ cache.not_in_cache_file # <<>>
    /\ \E i \in FalseCalls : ~FirstTouch(i)
    /\ \E i \in FalseCalls : FirstTouch(i) /\ i > 1
    /\ cache.hits >= 1

----------------------------------------------------------------------------
\* The size parameters the specification calls valid.
ValidParameters(c) ==
    /\ c.line_size > 0
    /\ c.size > 0
    /\ c.size % c.line_size = 0
    /\ c.kind = "SetAssociativeCache" =>
          /\ c.size % c.sets_amount = 0
          /\ c.sets_block_size % c.line_size = 0

\* C11: constructing a cache with invalid size parameters is rejected with
\* an error at construction; no cache object with such parameters reaches a
\* state in which get can be called.
C11_InvalidParametersRejected ==
    pc = "algo" => ValidParameters(cache)

\* C12: get_hit_stat on a cache with requests = 0 fails with a distinguishable
\* "no data" condition, not with a propagated division fault, and leaves the
\* cache as it was.
C12_EmptyTraceIsNoData ==
    (pc = "aborted" /\ cache.requests = 0) =>
        report.raised \notin {"none", "ZeroDivisionError"}

----------------------------------------------------------------------------
\* The address the claimed access order gives the idx-th get of an n x n
\* multiply: per (i, j) in row-major order C[i,j], then for k in order
\* A[i,k], B[k,j], C[i,j], element [r,c] at position r * n + c.
ClaimedAddr(n, idx) ==
    LET m == Matrices(n, ElementSize)
        per == 1 + 3 * n
        blk == (idx - 1) \div per
        r == (idx - 1) % per
        i == blk \div n
        j == blk % n
        k == (r - 1) \div 3
    IN  IF r = 0 THEN get_addr(m.c, i * n + j)
        ELSE IF (r - 1) % 3 = 0 THEN get_addr(m.a, i * n + k)
        ELSE IF (r - 1) % 3 = 1 THEN get_addr(m.b, k * n + j)
        ELSE get_addr(m.c, i * n + j)

\* C13: algo issues its accesses in exactly the order C[i,j], then for each k
\* A[i,k], B[k,j], C[i,j], and issues n * n * (1 + 3 * n) get calls in total
\* before it returns.
C13_AlgoOrderAndCount ==
    [][/\ GetStep => addr' = ClaimedAddr(loop.n, Len(trace'))
       /\ (pc = "loops" /\ pc' = "algo") =>
              Len(trace) = loop.n * loop.n * (1 + 3 * loop.n)]_vars

\* C14: a DirectCache with line_size 64 and total_size 3072, driven by the
\* trace for n = 2 and element_size 4, gives on every run 28 requests of
\* which only the first is a miss and the other 27 are hits.
C14_DirectN2Verdicts ==
    (cache.kind = "DirectCache" /\ cache.line_size = 64 /\ cache.size = 3072
                                /\ loop.n = 2) =>
        /\ \A i \in DOMAIN trace : trace[i].verdict <=> (i > 1)
        /\ pc # "loops" =>
              /\ Len(trace) = 28
              /\ cache.requests = 28
              /\ cache.hits = 27

C14_Witness ==
    /\ cache.kind = "DirectCache"
    /\ loop.n = 2
    /\ pc = "done"
    /\ report.requests = 28
    /\ report.misses = 1

----------------------------------------------------------------------------
\* The line a get call asks for, and the place of a hit's sample in the hit
\* stream.
Line == addr' \div cache.line_size
HitRank(i) == Cardinality({j \in TrueCalls : j <= i})

\* The keys whose history entry the step writes or changes.
HistoryChanged ==
    {l \in DOMAIN cache'.history :
        l \notin DOMAIN cache.history \/ cache'.history[l] # cache.history[l]}

\* C15: for all three organizations (the set-associative cache's outer
\* history included) a get that hits leaves history unchanged, and history[L]
\* changes only in a get that inserts L (the missing line) or evicts L (the
\* empty-slot mark -1 of a direct cache counted as an occupant).
C15_HitLeavesHistory ==
    [][GetStep =>
          /\ verdict' => cache'.history = cache.history
          /\ HistoryChanged \subseteq ({Line} \cup Evicted \cup {-1})]_vars

\* The request at which the line of call i last changed occupancy before
\* call i: for a hit the miss that inserted it, for a miss of a line seen
\* before the get that evicted it.
LastOccupancyChange(i) ==
    IF trace[i].verdict
    THEN Max({j \in 1..(i - 1) : trace[j].line = trace[i].line /\ ~trace[j].verdict})
    ELSE Max({j \in 1..(i - 1) : trace[i].line \in trace[j].evicted})

\* C16: for all three organizations every sample recorded for a previously
\* seen line is the index of the current request minus the index of the
\* request at which that line last changed occupancy (hit: its insertion;
\* miss: its eviction); every such sample is at least 1.
C16_SampleIsTimeSinceChange ==
    LET misses == MissStream
        hits == HitStream
    IN  \A i \in DOMAIN trace :
           ~FirstTouch(i) =>
              LET sample == IF trace[i].verdict THEN hits[HitRank(i)]
                            ELSE misses[MissRank(i)]
              IN  /\ sample = i - LastOccupancyChange(i)
                  /\ sample >= 1

----------------------------------------------------------------------------
\* The samples of log lines from + 1 .. Len(file).
Logged(file, from) == [i \in 1..(Len(file) - from) |-> ParseInt(file[from + i])]

\* The fields of a cache object that belong to one stream.
StreamFields(in_cache) ==
    IF in_cache THEN {"in_cache_history", "in_cache_len", "in_cache_file"}
    ELSE {"not_in_cache_history", "not_in_cache_len", "not_in_cache_file"}

\* flush(c, in_cache) changes nothing but the fields of its own stream.
FlushTouchesOwnStreamOnly(c) ==
    \A in_cache \in BOOLEAN :
        \A f \in (DOMAIN c) \ StreamFields(in_cache) : flush(c, in_cache)[f] = c[f]

\* C17: after every get each sample buffer holds at most FlushThreshold
\* samples and its length is the matching *_len counter; the get that finds
\* a full buffer flushes it: the buffered samples and the new one go to that
\* stream's log in recording order, and the other stream's buffer and log,
\* hits, requests and history are not touched by the flush.
C17_BuffersBoundedAndFlushedInOrder ==
    [][GetStep =>
          /\ Len(cache'.in_cache_history) <= FlushThreshold
          /\ Len(cache'.not_in_cache_history) <= FlushThreshold
          /\ Len(cache'.in_cache_history) = cache'.in_cache_len
          /\ Len(cache'.not_in_cache_history) = cache'.not_in_cache_len
          /\ cache'.requests = cache.requests + 1
          /\ cache'.hits = cache.hits + (IF verdict' THEN 1 ELSE 0)
          /\ FlushTouchesOwnStreamOnly(cache')
          /\ verdict' =>
                /\ cache'.not_in_cache_history = cache.not_in_cache_history
                /\ cache'.not_in_cache_file = cache.not_in_cache_file
                /\ IF Len(cache.in_cache_history) = FlushThreshold
                   THEN /\ cache'.in_cache_history = <<>>
                        /\ Len(cache'.in_cache_file) =
                              Len(cache.in_cache_file) + FlushThreshold + 1
                        /\ SubSeq(cache'.in_cache_file, 1, Len(cache.in_cache_file))
                              = cache.in_cache_file
                        /\ SubSeq(Logged(cache'.in_cache_file, Len(cache.in_cache_file)),
                                  1, FlushThreshold) = cache.in_cache_history
                   ELSE /\ cache'.in_cache_file = cache.in_cache_file
                        /\ SubSeq(cache'.in_cache_history, 1, Len(cache.in_cache_history))
                              = cache.in_cache_history
          /\ ~verdict' =>
                /\ cache'.in_cache_history = cache.in_cache_history
                /\ cache'.in_cache_file = cache.in_cache_file
                /\ IF Len(cache.not_in_cache_history) = FlushThreshold
                   THEN /\ cache'.not_in_cache_history = <<>>
                        /\ Len(cache'.not_in_cache_file) =
                              Len(cache.not_in_cache_file) + FlushThreshold + 1
                        /\ SubSeq(cache'.not_in_cache_file, 1, Len(cache.not_in_cache_file))
                              = cache.not_in_cache_file
                        /\ SubSeq(Logged(cache'.not_in_cache_file,
                                         Len(cache.not_in_cache_file)),
                                  1, FlushThreshold) = cache.not_in_cache_history
                   ELSE /\ cache'.not_in_cache_file = cache.not_in_cache_file
                        /\ SubSeq(cache'.not_in_cache_history, 1,
                                  Len(cache.not_in_cache_history))
                              = cache.not_in_cache_history]_vars

\* The hit buffer was flushed by a get while misses were still buffered.
C17_Witness ==
    /\ pc = "algo"
    /\ Len(cache.in_cache_file) = FlushThreshold + 1
    /\ cache.in_cache_history = <<>>
    /\ cache.not_in_cache_history # <<>>
    /\ verdict

----------------------------------------------------------------------------
\* The fully associative caches of a cache object: itself, or its inner sets
\* by set number; none for a direct cache.
FAKeys(c) ==
    IF c.kind = "FullyAssociativeCache" THEN {0}
    ELSE IF c.kind = "SetAssociativeCache" THEN DOMAIN c.cache
    ELSE {}

FAAt(c, i) == IF c.kind = "FullyAssociativeCache" THEN c ELSE c.cache[i]

\* C18: in a FullyAssociativeCache, and in each inner set of a
\* SetAssociativeCache, after every get the number of resident lines is
\* used_size and at most blocks; used_size never decreases; a miss of a full
\* cache evicts exactly one line and inserts the missing one; the resident
\* lines of the whole cache never exceed size / line_size.
C18_Occupancy ==
    [][GetStep =>
          /\ \A i \in FAKeys(cache) :
                LET old == FAAt(cache, i)
                    new == FAAt(cache', i)
                IN  /\ Cardinality(DOMAIN new.cache) = new.used_size
                    /\ new.used_size <= new.blocks
                    /\ new.used_size >= old.used_size
                    /\ (old.used_size = old.blocks /\ new.requests = old.requests + 1
                                                   /\ new.hits = old.hits) =>
                          /\ Cardinality((DOMAIN old.cache) \ (DOMAIN new.cache)) = 1
                          /\ (DOMAIN new.cache) \ (DOMAIN old.cache) = {Line}
          /\ cache.kind # "DirectCache" =>
                Cardinality(Resident(cache')) <= cache.size \div cache.line_size]_vars

\* A set of a set-associative cache is full and has just evicted a line
\* while another set holds a line.
C18_Witness ==
    /\ cache.kind = "SetAssociativeCache"
    /\ ~verdict
    /\ \E i, j \in DOMAIN cache.cache :
          /\ i # j
          /\ cache.cache[i].used_size = cache.cache[i].blocks
          /\ cache.cache[i].last_replaced # -1
          /\ cache.cache[i].cache # <<>>
          /\ cache.cache[j].used_size >= 1
          /\ Len(trace) >= 1
          /\ trace[Len(trace)].evicted # {}

----------------------------------------------------------------------------
\* C19: in every reachable state the timestamps a FullyAssociativeCache
\* (standalone or an inner set) stores for its resident lines are pairwise
\* distinct, so oldest_displacement has exactly one minimum; with the oldest
\* strategy every get has a single possible victim, hence a single outcome.
C19_TimestampsDistinct ==
    /\ \A i \in FAKeys(cache) :
          LET c == FAAt(cache, i).cache
          IN  /\ \A l, m \in DOMAIN c : l # m => c[l] # c[m]
              /\ DOMAIN c # {} => Cardinality(oldest_displacement(c)) = 1
    /\ Strategy(cache) = "oldest_displacement" =>
          \A a \in Addrs :
              Cardinality(VictimsOf(cache, a)) = 1

\* An oldest-strategy set is full after an eviction, so the set holds a
\* line inserted by a replacing miss beside one inserted below capacity.
C19_Witness ==
    /\ Strategy(cache) = "oldest_displacement"
    /\ \E i \in FAKeys(cache) :
          /\ FAAt(cache, i).used_size = FAAt(cache, i).blocks
          /\ FAAt(cache, i).last_replaced # -1
          /\ Cardinality(DOMAIN FAAt(cache, i).cache) >= 2
          /\ FAAt(cache, i).hits >= 1

----------------------------------------------------------------------------
\* C20: a SetAssociativeCache with sets_amount = 1 and the oldest strategy,
\* run side by side with the FullyAssociativeCache of the same line_size and
\* size and the oldest strategy on any address trace, returns the same
\* verdict for every get, holds the same resident set after every get, and
\* reports the same requests, hits and misses.
C20_OneSetIsFullyAssociative ==
    /\ verdict.sa = verdict.fa
    /\ Resident(cache.sa) = Resident(cache.fa)
    /\ cache.sa.requests = cache.fa.requests
    /\ cache.sa.hits = cache.fa.hits
    /\ report.sa = report.fa

\* Both caches have evicted, hit and reported.
C20_Witness ==
    /\ pc = "done"
    /\ report.fa.raised = "none"
    /\ report.sa.hits >= 1
    /\ report.fa.misses > cache.fa.blocks
    /\ cache.sa.cache[0].last_replaced # -1
    /\ verdict.sa

====
